---- MODULE Spec2Model ----
(***************************************************************************)
(* Lead scoring service: the predictor (model artifact loading, feature    *)
(* encoding, batch prediction) and the scoring endpoint that drives it.    *)
(*                                                                         *)
(* Conventions.  Python None is the string NoneValue where a string is     *)
(* expected and the record NoModel where a model object is expected.       *)
(* Fractions in [0,1] (confidence, class probability) are per-mille        *)
(* integers: 0.8 is 800.  An absent number is NoNumber.  Processing times  *)
(* are not modelled; the clock read by the feature encoder counts hours.   *)
(***************************************************************************)
EXTENDS Integers, Sequences, FiniteSets, TLC

\* ------------------------------------------------------------------------
\* Bounds of the model
\* ------------------------------------------------------------------------
MaxRequests == 1        \* request slots that can be in flight together
MaxSmallBatch == 3      \* small batch sizes 0..MaxSmallBatch are enumerated
MaxCategories == 3      \* longest known-category list tried on the encoder
MaxPrepBatch == 2       \* longest batch tried on the feature encoder alone
MaxKinesisBatches == 2  \* full put_records batches in one Kinesis write
MaxMetricChunks == 2    \* full put_metric_data chunks in one publish
MaxThreads == 2         \* executor worker threads running jobs together
MaxConcurrent == 2      \* scoring requests in flight together
MaxWrites == 2          \* data lake writes in flight together
MaxTicks == 1           \* flush intervals that pass during the writes

\* ------------------------------------------------------------------------
\* Program constants
\* ------------------------------------------------------------------------
MAX_LEADS == 500                          \* ScoreRequest.leads max_length
MAX_REQUEST_BYTES == 10 * 1024 * 1024     \* validate_request_size limit
MOCK_CONFIDENCE_VALUE == 800
DEFAULT_DAYS_SINCE_INTERACTION == 999
MOCK_CUSTOM_FEATURES == 34                \* range(1, 35)
SCORE_MIN == 1
SCORE_MAX == 5
CONFIDENCE_MAX == 1000                    \* 1.0 in per-mille

NoneValue == "<None>"
NoModel == [type |-> "NoneType"]

\* Known category list of the company_size field (app.core.constants).
COMPANY_SIZES == <<"Small", "Medium", "Large", "Enterprise">>

\* The other known category lists imported from app.core.constants.
INDUSTRIES == <<"Technology", "Healthcare", "Finance", "Retail">>
JOB_TITLES == <<"Manager", "Director", "VP", "C-Level">>
SENIORITY_LEVELS == <<"Junior", "Mid", "Senior", "Executive">>
GEOGRAPHIES == <<"North America", "Europe", "Asia Pacific">>

\* ------------------------------------------------------------------------
\* Feature encoder
\* ------------------------------------------------------------------------
\* categories.index(value): position of the first occurrence, 0-based.
ListIndex(categories, value) ==
    (CHOOSE i \in 1..Len(categories) :
        /\ categories[i] = value
        /\ \A j \in 1..(i - 1) : categories[j] # value) - 1

InList(categories, value) == \E i \in 1..Len(categories) : categories[i] = value

\* Mutant of _encode_categorical: the "+ 1" of the known branch is dropped.
_encode_categorical_zero_based(value, categories) ==
    IF value = NoneValue \/ value = ""
    THEN 0
    ELSE IF InList(categories, value)
         THEN ListIndex(categories, value)
         ELSE Len(categories) + 1

\* "if not value" is true of None and of the empty string.
_encode_categorical(value, categories) ==
    IF value = NoneValue \/ value = ""
    THEN 0
    ELSE IF InList(categories, value)
         THEN ListIndex(categories, value) + 1
         ELSE Len(categories) + 1

\* The columns _prepare_features derives by itself, before the schema is
\* applied: 15 fixed columns, days_since_last_interaction, 34 custom ones.
BaseColumns ==
    << "company_size_encoded", "industry_encoded", "job_title_encoded",
       "seniority_level_encoded", "geography_encoded",
       "email_engagement_score", "website_sessions", "pages_viewed",
       "time_on_site", "form_fills", "content_downloads",
       "campaign_touchpoints", "account_revenue", "account_employees",
       "existing_customer_encoded", "days_since_last_interaction" >>

CustomColumns ==
    [i \in 1..MOCK_CUSTOM_FEATURES |-> "custom_feature_" \o ToString(i)]

\* An absent numeric field; every numeric field of LeadFeatures has ge=0.
NoNumber == -1

\* Mutant of OrZero: an absent value is passed on as it is.
OrZero_keeps_none(x) == x

\* "lead.x or 0": None and 0 both give 0.
OrZero(x) == IF x = NoNumber THEN 0 ELSE x

\* last_campaign_interaction: None, or a datetime.  Time is counted in
\* whole hours; tz_aware says whether the parsed ISO string had an offset.
NoTimestamp == [kind |-> "NoneType", hours |-> 0, tz_aware |-> FALSE]

Timestamp(hours, tz_aware) ==
    [kind |-> "datetime", hours |-> hours, tz_aware |-> tz_aware]

\* custom_features: None, or a dict from names to numbers.
EmptyMap == [key \in {} |-> 0]
NoCustomFeatures == [kind |-> "NoneType", map |-> EmptyMap]

CustomFeatures(map) == [kind |-> "dict", map |-> map]

HoursPerDay == 24

\* Timedelta.days: the floor of the difference in days (negative for a
\* timestamp after now).
TimedeltaDays(now, hours) == (now - hours) \div HoursPerDay

Max(a, b) == IF a > b THEN a ELSE b

\* Mutant of DaysSince: the max(0, ...) is missing.
DaysSince_signed(now, t) ==
    IF t.kind = "NoneType"
    THEN DEFAULT_DAYS_SINCE_INTERACTION
    ELSE TimedeltaDays(now, t.hours)

\* max(0, (now - pd.Timestamp(t)).days) if t else DEFAULT_DAYS_...
DaysSince(now, t) ==
    IF t.kind = "NoneType"
    THEN DEFAULT_DAYS_SINCE_INTERACTION
    ELSE Max(0, TimedeltaDays(now, t.hours))

\* "now - pd.Timestamp(t)": now is pd.Timestamp.now(), which carries no
\* time zone, and the subtraction of a zone-aware timestamp from it raises
\* TypeError.
SubtractionRaises(t) == t.kind = "datetime" /\ t.tz_aware

\* Mutant of CustomValue: the custom map is never read.
CustomValue_ignored(custom_features, key) == 0

\* lead.custom_features.get(key, 0.0) if lead.custom_features else 0.0
CustomValue(custom_features, key) ==
    IF custom_features.kind = "dict" /\ key \in DOMAIN custom_features.map
    THEN custom_features.map[key]
    ELSE 0

CustomKeys == { CustomColumns[i] : i \in 1..MOCK_CUSTOM_FEATURES }

\* The dict "data" of _prepare_features for one lead: column name to value.
DerivedFeatures(lead, now) ==
    [company_size_encoded |->
         _encode_categorical(lead.company_size, COMPANY_SIZES),
     industry_encoded |-> _encode_categorical(lead.industry, INDUSTRIES),
     job_title_encoded |-> _encode_categorical(lead.job_title, JOB_TITLES),
     seniority_level_encoded |->
         _encode_categorical(lead.seniority_level, SENIORITY_LEVELS),
     geography_encoded |-> _encode_categorical(lead.geography, GEOGRAPHIES),
     email_engagement_score |-> OrZero(lead.email_engagement_score),
     website_sessions |-> OrZero(lead.website_sessions),
     pages_viewed |-> OrZero(lead.pages_viewed),
     time_on_site |-> OrZero(lead.time_on_site),
     form_fills |-> OrZero(lead.form_fills),
     content_downloads |-> OrZero(lead.content_downloads),
     campaign_touchpoints |-> OrZero(lead.campaign_touchpoints),
     account_revenue |-> OrZero(lead.account_revenue),
     account_employees |-> OrZero(lead.account_employees),
     existing_customer_encoded |->
         IF lead.existing_customer = "True" THEN 1 ELSE 0,
     days_since_last_interaction |->
         DaysSince(now, lead.last_campaign_interaction)]
    @@ [key \in CustomKeys |-> CustomValue(lead.custom_features, key)]

\* The value of one column for one lead: the derived value, or the 0.0 a
\* schema column gets when the encoder does not derive it.
ColumnValue(derived, col) ==
    IF col \in DOMAIN derived THEN derived[col] ELSE 0

FeatureValue(lead, col, now) == ColumnValue(DerivedFeatures(lead, now), col)

SchemaRow(derived, columns) ==
    [j \in 1..Len(columns) |-> ColumnValue(derived, columns[j])]

\* The columns of the returned frame: df[self.feature_columns] when the
\* schema is not empty, else the frame of the derived columns as built.
FrameColumns(columns) ==
    IF columns # <<>> THEN columns ELSE BaseColumns \o CustomColumns

\* The rows of the returned frame, one per lead, in input order.
_prepare_features(lead_features, columns, now) ==
    [i \in 1..Len(lead_features) |->
        SchemaRow(DerivedFeatures(lead_features[i], now),
                  FrameColumns(columns))]

\* _prepare_features raises when one of its list comprehensions does.
PrepareRaises(lead_features) ==
    \E i \in 1..Len(lead_features) :
        SubtractionRaises(lead_features[i].last_campaign_interaction)

\* ------------------------------------------------------------------------
\* Model objects.  A model is opaque to the service; here it is a table of
\* class labels and a table of maximum class probabilities, both indexed by
\* a key of the feature row, so that different rows give different output.
\* ------------------------------------------------------------------------
RECURSIVE SumUpTo(_, _)
SumUpTo(s, k) == IF k = 0 THEN 0 ELSE s[k] + SumUpTo(s, k - 1)

RowKey(row) == SumUpTo(row, Len(row))

ModelPredict(m, row) == m.labels[(RowKey(row) % Len(m.labels)) + 1]

ModelPredictProba(m, row) == m.proba[(RowKey(row) % Len(m.proba)) + 1]

\* RandomForestClassifier fitted on labels drawn from 1..5.
MockModel ==
    [type |-> "RandomForestClassifier", labels |-> <<1, 2, 3, 4, 5>>,
     has_proba |-> TRUE, proba |-> <<400, 1000, 550>>]

MockColumns == BaseColumns \o CustomColumns

\* Contents a model file can have: model_data["model"],
\* model_data["feature_columns"], model_data.get("version").  The loader
\* does not inspect them: a classifier with zero-based classes, a model
\* without predict_proba whose output leaves 1..5, a model whose
\* probabilities leave [0,1], and a file whose "model" entry is None (it
\* loads without error and leaves the predictor without a model).
Artifacts ==
    { [model |-> [type |-> "XGBClassifier", labels |-> <<0, 1, 2, 3, 4>>,
                  has_proba |-> TRUE, proba |-> <<350, 900, 1000>>],
       feature_columns |-> <<"company_size_encoded", "custom_feature_1",
                             "lead_age_days">>,
       version |-> "2.1.0"],
      [model |-> [type |-> "XGBRegressor", labels |-> <<-1, 3, 7>>,
                  has_proba |-> FALSE, proba |-> <<0>>],
       feature_columns |-> <<"company_size_encoded",
                             "days_since_last_interaction">>,
       version |-> NoneValue],
      [model |-> [type |-> "Pipeline", labels |-> <<6, 0, 2>>,
                  has_proba |-> TRUE, proba |-> <<1200, 0, 700>>],
       feature_columns |-> <<"company_size_encoded">>,
       version |-> "3.0.0-rc1"],
      [model |-> NoModel,
       feature_columns |-> <<"company_size_encoded">>,
       version |-> "0.0.1"] }

\* ------------------------------------------------------------------------
\* Predictor: construction and model loading
\* ------------------------------------------------------------------------
\* _load_from_s3 / _load_from_file after a successful pickle.load.
_load_from_file(artifact) ==
    [model |-> artifact.model,
     feature_columns |-> artifact.feature_columns,
     model_version |-> IF artifact.version = NoneValue
                       THEN "1.0.0" ELSE artifact.version]

_load_mock_model ==
    [model |-> MockModel,
     feature_columns |-> MockColumns,
     model_version |-> "mock-1.0.0"]

\* Mutant of _load_model: the strict policy, a failed load leaves the
\* predictor as __init__ set it up (no model).
_load_model_strict(load_raised, artifact) ==
    IF load_raised
    THEN [model |-> NoModel, feature_columns |-> <<>>,
          model_version |-> "1.0.0"]
    ELSE _load_from_file(artifact)

\* try: load the artifact; except Exception: self._load_mock_model().
_load_model(load_raised, artifact) ==
    IF load_raised
    THEN _load_mock_model
    ELSE _load_from_file(artifact)

VARIABLES
    model,            \* predictor.model
    feature_columns,  \* predictor.feature_columns
    model_version,    \* predictor.model_version
    load_error,       \* history: the artifact load raised during __init__
    requests,         \* per request slot: inputs, handler position, outcome
    enc,              \* one call of _encode_categorical: arguments, result
    prep,             \* one call of _prepare_features: arguments, result
    probe,            \* the last health probe: endpoint and response
    kin,              \* one call of _write_to_kinesis_async
    met,              \* one call of _publish_metrics_sync
    clients,          \* the lazily built AWS clients and the worker threads
    lake,             \* the data lake writer and its write tasks
    fan               \* one run of a request's background tasks

vars ==
    <<model, feature_columns, model_version, load_error, requests, enc,
      prep, probe, kin, met, clients, lake, fan>>

sink_vars == <<kin, met, clients, lake, fan>>

predictor_vars == <<model, feature_columns, model_version, load_error>>

Reqs == 1..MaxRequests

\* Mutant of is_loaded: the predictor always reports a model.
is_loaded_always == TRUE

is_loaded == model # NoModel

\* Mutant of get_model_info: features_count is the width of the encoder's
\* own frame instead of the length of the schema.
get_model_info_frame_width ==
    [version |-> model_version,
     features_count |-> Len(BaseColumns \o CustomColumns),
     loaded |-> is_loaded,
     model_type |-> IF is_loaded THEN model.type ELSE NoneValue]

get_model_info ==
    [version |-> model_version,
     features_count |-> Len(feature_columns),
     loaded |-> is_loaded,
     model_type |-> IF is_loaded THEN model.type ELSE NoneValue]

\* ------------------------------------------------------------------------
\* Prediction
\* ------------------------------------------------------------------------
Clip(x, lo, hi) == IF x < lo THEN lo ELSE IF x > hi THEN hi ELSE x

\* Mutant of _predict_sync: the np.clip call is missing.
_predict_sync_unclipped(m, X) ==
    [i \in 1..Len(X) |-> ModelPredict(m, X[i])]

\* self.model.predict(X) followed by np.clip(predictions, 1, 5).
_predict_sync(m, X) ==
    [i \in 1..Len(X) |-> Clip(ModelPredict(m, X[i]), SCORE_MIN, SCORE_MAX)]

\* Mutant of LeadScoreValid: the Field bounds are missing.
LeadScoreValid_unbounded(score, confidence) == TRUE

\* LeadScore(score: ge=1, le=5; confidence: ge=0, le=1).
LeadScoreValid(score, confidence) ==
    /\ score >= SCORE_MIN /\ score <= SCORE_MAX
    /\ confidence >= 0 /\ confidence <= CONFIDENCE_MAX

\* Mutant of Confidences: predict_proba is never consulted.
Confidences_constant(m, X, predictions) ==
    [i \in 1..Len(predictions) |-> MOCK_CONFIDENCE_VALUE]

\* max(proba) per row when the model has predict_proba, else the constant.
Confidences(m, X, predictions) ==
    IF m # NoModel /\ m.has_proba
    THEN [i \in 1..Len(X) |-> ModelPredictProba(m, X[i])]
    ELSE [i \in 1..Len(predictions) |-> MOCK_CONFIDENCE_VALUE]

Min(a, b) == IF a < b THEN a ELSE b

\* The result list built by predict_batch from zip(predictions, confidences).
LeadScores(predictions, confidences, columns) ==
    [i \in 1..Min(Len(predictions), Len(confidences)) |->
        [kind |-> "LeadScore",
         score |-> predictions[i],
         confidence |-> confidences[i],
         features_used |-> Len(columns)]]

PyList(items) == [kind |-> "list", items |-> items]

\* ------------------------------------------------------------------------
\* Scoring requests
\* ------------------------------------------------------------------------
\* LeadFeatures() with no field given: every field is None.
BlankLead ==
    [company_size |-> NoneValue, industry |-> NoneValue,
     job_title |-> NoneValue, seniority_level |-> NoneValue,
     geography |-> NoneValue,
     email_engagement_score |-> NoNumber, website_sessions |-> NoNumber,
     pages_viewed |-> NoNumber, time_on_site |-> NoNumber,
     form_fills |-> NoNumber, content_downloads |-> NoNumber,
     campaign_touchpoints |-> NoNumber, account_revenue |-> NoNumber,
     account_employees |-> NoNumber, existing_customer |-> NoneValue,
     last_campaign_interaction |-> NoTimestamp,
     custom_features |-> NoCustomFeatures]

\* pd.Timestamp.now() in the request specifications, in hours.
NowHours == 72

\* The leads a request can carry: company_size absent, known, not known.
LeadKinds ==
    << BlankLead,
       [BlankLead EXCEPT !.company_size = "Small"],
       [BlankLead EXCEPT !.company_size = "Startup"] >>

\* A batch of n leads that cycles through LeadKinds from a chosen start, so
\* neighbouring leads differ and a reordering is visible.
Leads(n, start) ==
    [i \in 1..n |-> LeadKinds[((start + i) % Len(LeadKinds)) + 1]]

BatchSizes == (0..MaxSmallBatch) \cup {MAX_LEADS, MAX_LEADS + 1}

LeadStarts == 0..(Len(LeadKinds) - 1)

\* Batch size and start of the cycle: small batches from every start, the
\* empty batch and the two batches around the limit from the first.
BatchShapes ==
    { <<n, start>> : n \in 1..MaxSmallBatch, start \in LeadStarts }
        \cup { <<n, 0>> : n \in {0, MAX_LEADS, MAX_LEADS + 1} }

\* Small batches only, for the specification of the whole service.
SmallBatchShapes == { <<n, 0>> : n \in 0..2 }

NoLength == -1     \* the request has no content-length header

\* A request body: its size in bytes, and whether it is sent chunked.  A
\* chunked request has no content-length header; otherwise the header is
\* the size of the body.
Bodies ==
    { [bytes |-> bytes, chunked |-> chunked] :
        bytes \in {MAX_REQUEST_BYTES, MAX_REQUEST_BYTES + 1},
        chunked \in BOOLEAN }

ContentLengthOf(body) == IF body.chunked THEN NoLength ELSE body.bytes

\* The bodies tried together with large batches: the chunked body over the
\* limit is left to the specification of the whole service.
MainBodies ==
    { body \in Bodies : body.chunked => body.bytes <= MAX_REQUEST_BYTES }

\* The content-length headers tried: absent, at the limit, one byte over.
ContentLengths == { ContentLengthOf(body) : body \in Bodies }

NoBody == [kind |-> "none"]
NoResponse ==
    [status |-> 0, detail |-> "", body |-> NoBody, x_request_id |-> NoneValue]

HTTPError(status_code, detail) ==
    [status |-> status_code, detail |-> detail, body |-> NoBody,
     x_request_id |-> NoneValue]

\* str(uuid.uuid4()): the id the logging middleware gives request r, and
\* the id ScoreRequest generates when the body has no request_id.
MiddlewareUuid(r) == "uuid-middleware-" \o ToString(r)
DefaultUuid(r) == "uuid-default-" \o ToString(r)
CallerId(r) == "caller-id-" \o ToString(r)

\* ScoreRequest.request_id: the caller's value, or the default_factory's.
BodyRequestId(r, supplied) == IF supplied THEN CallerId(r) ELSE DefaultUuid(r)

\* "raised" names the stage whose exception ended the request; "predicted"
\* is a history field: predict_batch returned its result list.
IdleRequest ==
    [pc |-> "idle", n |-> 0, start |-> 0, content_length |-> NoLength,
     body_bytes |-> 0, supplied |-> FALSE, request_id |-> NoneValue,
     state_request_id |-> NoneValue,
     predictions |-> <<>>, results |-> PyList(<<>>), raised |-> "none",
     predicted |-> FALSE,
     response |-> NoResponse, tasks |-> <<>>]

\* Depends(validate_request_size)
validate_request_size(content_length) ==
    IF content_length # NoLength /\ content_length > MAX_REQUEST_BYTES
    THEN HTTPError(413, "Request too large")
    ELSE NoResponse

\* Mutant of ScoreRequestValid: max_length and the validator are missing.
ScoreRequestValid_no_max(n) == n >= 1

\* ScoreRequest.leads: min_length=1, max_length=500, validate_leads.
ScoreRequestValid(n) == n >= 1 /\ n <= MAX_LEADS

\* The two-target assignment "scores, engineered_features = <value>":
\* it succeeds only on an iterable of exactly two items.
Unpack2(value) ==
    IF value.kind = "list" /\ Len(value.items) = 2
    THEN [ok |-> TRUE, first |-> value.items[1], second |-> value.items[2]]
    ELSE [ok |-> FALSE]

\* ScoreResponse(scores: list[LeadScore]) accepts a list of LeadScore only.
ScoreResponseValid(scores) ==
    /\ scores.kind = "list"
    /\ \A i \in 1..Len(scores.items) : scores.items[i].kind = "LeadScore"

ScoreResponse(request_id, total_leads, scores, version) ==
    [status |-> 200, detail |-> "",
     body |-> [kind |-> "ScoreResponse", request_id |-> request_id,
               total_leads |-> total_leads,
               scores |-> scores.items, model_version |-> version,
               status |-> "success"],
     x_request_id |-> NoneValue]

\* Mutant of InternalError: the exception text is passed to the caller.
InternalError_leaky(stage) == HTTPError(500, stage)

\* except Exception: raise HTTPException(500, <fixed detail>) from None
InternalError(stage) ==
    HTTPError(500, "Internal server error during prediction")

FanOutTasks == <<"write_predictions_async", "publish_prediction_metrics">>

\* score_leads from the return of predict_batch to its own return.
HandlerTail(rq) ==
    LET unpacked == Unpack2(rq.results) IN
    IF ~unpacked.ok
    THEN [rq EXCEPT !.pc = "done", !.raised = "unpack",
                    !.response = InternalError("unpack")]
    ELSE IF ~ScoreResponseValid(unpacked.first)
         THEN [rq EXCEPT !.pc = "done", !.raised = "ScoreResponse",
                         !.response = InternalError("ScoreResponse")]
         ELSE [rq EXCEPT !.pc = "done",
                         !.response = ScoreResponse(rq.request_id, rq.n,
                                                    unpacked.first,
                                                    get_model_info.version),
                         !.tasks = FanOutTasks]

\* Arguments and result of a call of _encode_categorical.
NoCall == [value |-> NoneValue, categories |-> <<>>, result |-> 0,
           called |-> FALSE]

\* Arguments and result of a call of _prepare_features.
NoPrep ==
    [lead_features |-> <<>>, columns |-> <<>>, now |-> 0, called |-> FALSE,
     raised |-> FALSE, frame |-> [columns |-> <<>>, rows |-> <<>>]]

\* No health probe has been answered yet.
NoProbe == [endpoint |-> "none", status |-> 0, body |-> NoBody]

\* The sinks before anything has used them.
NoKin == [called |-> FALSE]
NoMet == [called |-> FALSE]
NoClients == [used |-> FALSE]
NoLake == [used |-> FALSE]
NoFan == [scheduled |-> FALSE]

SinksIdle ==
    /\ kin = NoKin
    /\ met = NoMet
    /\ clients = NoClients
    /\ lake = NoLake
    /\ fan = NoFan

\* ------------------------------------------------------------------------
\* State machine
\* ------------------------------------------------------------------------
\* After "predictor = LeadScoringPredictor()": the artifact load either
\* raised (missing file, S3 error, bad pickle) or returned some artifact.
Init ==
    /\ \E load_raised \in BOOLEAN, artifact \in Artifacts :
          LET p == _load_model(load_raised, artifact) IN
          /\ model = p.model
          /\ feature_columns = p.feature_columns
          /\ model_version = p.model_version
          /\ load_error = load_raised
    /\ requests = [r \in Reqs |-> IdleRequest]
    /\ enc = NoCall
    /\ prep = NoPrep
    /\ probe = NoProbe
    /\ SinksIdle

\* LoggingMiddleware.dispatch after call_next returned: the response gets
\* the middleware's own id as its X-Request-ID header.
LoggingMiddleware(rq) ==
    [rq EXCEPT !.response.x_request_id = rq.state_request_id]

\* Store the new state of request r; an answered request passes back
\* through the middleware, and the locals of predict_batch (predictions,
\* results) are gone.
Finish(r, rq) ==
    requests' = [requests EXCEPT ![r] =
        IF rq.pc = "done"
        THEN [LoggingMiddleware(rq) EXCEPT !.predictions = <<>>,
                                           !.results = PyList(<<>>)]
        ELSE rq]

\* A POST /score arrives: the logging middleware gives it an id, FastAPI
\* runs the size dependency, then validates the body against ScoreRequest;
\* a failure of either answers the request without entering score_leads.
Arrive(r, shapes, bodies, supplied_choices) ==
    /\ requests[r].pc = "idle"
    /\ \E shape \in shapes, body \in bodies, supplied \in supplied_choices :
          LET rq == [IdleRequest EXCEPT
                        !.n = shape[1], !.start = shape[2],
                        !.content_length = ContentLengthOf(body),
                        !.body_bytes = body.bytes,
                        !.supplied = supplied,
                        !.request_id = BodyRequestId(r, supplied),
                        !.state_request_id = MiddlewareUuid(r)]
              size == validate_request_size(ContentLengthOf(body))
          IN  IF size # NoResponse
              THEN Finish(r, [rq EXCEPT !.pc = "done", !.response = size])
              ELSE IF ~ScoreRequestValid(shape[1])
                   THEN Finish(r, [rq EXCEPT !.pc = "done",
                                     !.response = HTTPError(422, "validation error")])
                   ELSE Finish(r, [rq EXCEPT !.pc = "handler"])
    /\ UNCHANGED <<predictor_vars, enc, prep, probe, sink_vars>>

\* Requests of every batch shape, all carrying their own request_id.
Receive(r) == Arrive(r, BatchShapes, MainBodies, {TRUE})

\* score_leads up to the first suspension inside predict_batch: the model
\* check, the batch-size check, get_model_info, _prepare_features and the
\* hand-over of _predict_sync to the executor.
score_leads(r) ==
    /\ requests[r].pc = "handler"
    /\ LET rq == requests[r] IN
       IF ~is_loaded
       THEN Finish(r, [rq EXCEPT !.pc = "done",
                         !.response = HTTPError(503,
                             "Model not available. Please try again later.")])
       ELSE IF rq.n > MAX_LEADS
            THEN Finish(r, [rq EXCEPT !.pc = "done",
                              !.response = HTTPError(400,
                                  "Maximum 500 leads per request")])
            ELSE \E encode_raised \in BOOLEAN :
                    IF encode_raised
                    THEN Finish(r, [rq EXCEPT !.pc = "done",
                                      !.raised = "encode",
                                      !.response = InternalError("encode")])
                    ELSE Finish(r, [rq EXCEPT !.pc = "predict_sync"])
    /\ UNCHANGED <<predictor_vars, enc, prep, probe, sink_vars>>

\* _predict_sync on the executor; model.predict may raise.
PredictSyncStep(r, rq, X) ==
    \E predict_raised \in BOOLEAN :
        IF model = NoModel \/ predict_raised
        THEN Finish(r, [rq EXCEPT !.pc = "done", !.raised = "predict",
                          !.response = InternalError("predict")])
        ELSE Finish(r, [rq EXCEPT !.pc = "predict_proba",
                          !.predictions = _predict_sync(model, X)])

predict_sync(r) ==
    /\ requests[r].pc = "predict_sync"
    /\ PredictSyncStep(r, requests[r],
           _prepare_features(Leads(requests[r].n, requests[r].start),
                             feature_columns, NowHours))
    /\ UNCHANGED <<predictor_vars, enc, prep, probe, sink_vars>>

\* The rest of predict_batch: confidences, the LeadScore objects (whose
\* construction validates them) and the return of the result list.
ResultsValid(results) ==
    \A i \in 1..Len(results) :
        LeadScoreValid(results[i].score, results[i].confidence)

PredictBatchStep(r, rq, results) ==
    \E proba_raised \in BOOLEAN :
        IF proba_raised /\ model.has_proba
        THEN Finish(r, [rq EXCEPT !.pc = "done", !.raised = "proba",
                          !.response = InternalError("proba")])
        ELSE IF ~ResultsValid(results)
             THEN Finish(r, [rq EXCEPT !.pc = "done", !.raised = "LeadScore",
                               !.response = InternalError("LeadScore")])
             ELSE Finish(r, [rq EXCEPT !.pc = "predicted",
                               !.predicted = TRUE,
                               !.results = PyList(results)])

predict_batch_return(r) ==
    /\ requests[r].pc = "predict_proba"
    /\ PredictBatchStep(r, requests[r],
           LeadScores(requests[r].predictions,
                      Confidences(model,
                          _prepare_features(Leads(requests[r].n,
                                                  requests[r].start),
                                            feature_columns, NowHours),
                          requests[r].predictions),
                      feature_columns))
    /\ UNCHANGED <<predictor_vars, enc, prep, probe, sink_vars>>

\* score_leads after predict_batch returned: the tuple assignment, the
\* ScoreResponse, the two add_task calls and the return.
score_leads_return(r) ==
    /\ requests[r].pc = "predicted"
    /\ Finish(r, HandlerTail(requests[r]))
    /\ UNCHANGED <<predictor_vars, enc, prep, probe, sink_vars>>

Next ==
    \E r \in Reqs :
        \/ Receive(r)
        \/ score_leads(r)
        \/ predict_sync(r)
        \/ predict_batch_return(r)
        \/ score_leads_return(r)

Spec == Init /\ [][Next]_vars

\* ------------------------------------------------------------------------
\* The whole service: scoring requests (small batches, with and without a
\* caller-supplied request_id) next to the health and model-info endpoints.
\* ------------------------------------------------------------------------
Probe(endpoint, status_code, body) ==
    [endpoint |-> endpoint, status |-> status_code, body |-> body]

\* GET /health
HealthCheck(model_loaded) ==
    [kind |-> "HealthCheck",
     status |-> IF model_loaded THEN "healthy" ELSE "degraded",
     model_loaded |-> model_loaded]

health_check ==
    /\ probe' = Probe("/health", 200, HealthCheck(is_loaded))
    /\ UNCHANGED <<predictor_vars, requests, enc, prep, sink_vars>>

\* Mutant of ReadinessResponse: ready whatever the predictor says.
ReadinessResponse_always_ready(loaded) ==
    Probe("/health/ready", 200, [kind |-> "json", status |-> "ready"])

ReadinessResponse(loaded) ==
    IF ~loaded
    THEN Probe("/health/ready", 503,
               [kind |-> "json", status |-> "not ready",
                reason |-> "model not loaded"])
    ELSE Probe("/health/ready", 200, [kind |-> "json", status |-> "ready"])

\* GET /health/ready
readiness_check ==
    /\ probe' = ReadinessResponse(is_loaded)
    /\ UNCHANGED <<predictor_vars, requests, enc, prep, sink_vars>>

\* GET /health/live
liveness_check ==
    /\ probe' = Probe("/health/live", 200,
                      [kind |-> "json", status |-> "alive"])
    /\ UNCHANGED <<predictor_vars, requests, enc, prep, sink_vars>>

\* Mutant of model_info: the endpoint reloads the mock artifact.
model_info_reloading ==
    /\ probe' = Probe("/model/info", 200,
                      [kind |-> "json", info |-> get_model_info])
    /\ model' = _load_mock_model.model
    /\ feature_columns' = _load_mock_model.feature_columns
    /\ model_version' = _load_mock_model.model_version
    /\ UNCHANGED <<load_error, requests, enc, prep, sink_vars>>

\* GET /scoring/model/info
model_info ==
    /\ probe' = Probe("/model/info", 200,
                      [kind |-> "json", info |-> get_model_info])
    /\ UNCHANGED <<predictor_vars, requests, enc, prep, sink_vars>>

\* Requests of small batches, with and without their own request_id.
ReceiveSmall(r) == Arrive(r, SmallBatchShapes, Bodies, BOOLEAN)

ServiceNext ==
    \/ \E r \in Reqs :
          \/ ReceiveSmall(r)
          \/ score_leads(r)
          \/ predict_sync(r)
          \/ predict_batch_return(r)
          \/ score_leads_return(r)
    \/ health_check
    \/ readiness_check
    \/ liveness_check
    \/ model_info

ServiceSpec == Init /\ [][ServiceNext]_vars

\* ------------------------------------------------------------------------
\* The categorical encoder on its own: any value against any known list.
\* ------------------------------------------------------------------------
CategoryNames == {"Small", "Medium", "Large"}

CategoryValues == {NoneValue, "", "Startup"} \cup CategoryNames

CategoryLists ==
    UNION { [1..k -> CategoryNames] : k \in 0..MaxCategories }

EncInit ==
    /\ model = _load_mock_model.model
    /\ feature_columns = _load_mock_model.feature_columns
    /\ model_version = _load_mock_model.model_version
    /\ load_error = TRUE
    /\ requests = [r \in Reqs |-> IdleRequest]
    /\ \E value \in CategoryValues, categories \in CategoryLists :
          enc = [value |-> value, categories |-> categories, result |-> 0,
                 called |-> FALSE]
    /\ prep = NoPrep
    /\ probe = NoProbe
    /\ SinksIdle

Encode ==
    /\ ~enc.called
    /\ enc' = [enc EXCEPT !.called = TRUE,
                          !.result = _encode_categorical(enc.value,
                                                         enc.categories)]
    /\ UNCHANGED <<predictor_vars, requests, prep, probe, sink_vars>>

EncNext == Encode

EncSpec == EncInit /\ [][EncNext]_vars

\* ------------------------------------------------------------------------
\* The feature encoder on its own: any small batch against any schema.
\* ------------------------------------------------------------------------
\* Timestamps around now: two days and an hour back, an hour short of a
\* day back, now, five hours ahead, more than a day ahead; without a zone
\* and (one of them) with a zone.
PrepTimestamps ==
    {NoTimestamp, Timestamp(NowHours, TRUE)}
        \cup { Timestamp(NowHours + d, FALSE) : d \in {-49, -23, 0, 5, 30} }

\* A custom map whose keys are inside and outside custom_feature_1..34.
FullCustomMap ==
    [key \in {"custom_feature_1", "custom_feature_34", "custom_feature_35",
              "lead_age_days"} |->
        IF key = "custom_feature_1" THEN 3
        ELSE IF key = "custom_feature_34" THEN 4
        ELSE IF key = "custom_feature_35" THEN 9 ELSE 11]

\* Three leads apart from the timestamp: nothing given; numeric fields
\* given as zero and an empty custom map; fields and custom map given.
PrepLeadShapes ==
    { BlankLead,
      [BlankLead EXCEPT !.website_sessions = 0, !.account_revenue = 0,
                        !.existing_customer = "False",
                        !.custom_features = CustomFeatures(EmptyMap)],
      [BlankLead EXCEPT !.company_size = "Large", !.geography = "Mars",
                        !.website_sessions = 7,
                        !.email_engagement_score = 500,
                        !.existing_customer = "True",
                        !.custom_features = CustomFeatures(FullCustomMap)] }

PrepLeads ==
    { [shape EXCEPT !.last_campaign_interaction = t] :
        shape \in PrepLeadShapes, t \in PrepTimestamps }

\* Feature schemas a model file can declare: the mock schema, an empty
\* one, and two that name custom features inside and outside the encoder's
\* custom_feature_1..34.
PrepSchemas ==
    { MockColumns,
      <<>>,
      <<"custom_feature_1", "lead_age_days", "website_sessions">>,
      <<"custom_feature_35", "days_since_last_interaction",
        "custom_feature_34", "account_employees">> }

PrepBatches == UNION { [1..k -> PrepLeads] : k \in 1..MaxPrepBatch }

PrepInit ==
    /\ model = _load_mock_model.model
    /\ feature_columns = _load_mock_model.feature_columns
    /\ model_version = _load_mock_model.model_version
    /\ load_error = TRUE
    /\ requests = [r \in Reqs |-> IdleRequest]
    /\ enc = NoCall
    /\ probe = NoProbe
    /\ SinksIdle
    /\ \E lead_features \in PrepBatches, columns \in PrepSchemas,
          now \in {NowHours, NowHours + 1} :
          prep = [NoPrep EXCEPT !.lead_features = lead_features,
                                !.columns = columns, !.now = now]

\* One call of _prepare_features with self.feature_columns = prep.columns.
Prepare ==
    /\ ~prep.called
    /\ prep' =
          IF PrepareRaises(prep.lead_features)
          THEN [prep EXCEPT !.called = TRUE, !.raised = TRUE]
          ELSE [prep EXCEPT !.called = TRUE,
                   !.frame = [columns |-> FrameColumns(prep.columns),
                              rows |-> _prepare_features(prep.lead_features,
                                           prep.columns, prep.now)]]
    /\ UNCHANGED <<predictor_vars, requests, enc, probe, sink_vars>>

PrepNext == Prepare

PrepSpec == PrepInit /\ [][PrepNext]_vars

\* ------------------------------------------------------------------------
\* Properties
\* ------------------------------------------------------------------------
Answered(r) == requests[r].pc = "done"

\* The response is the error with this status code and detail, no body.
IsError(response, status_code, detail) ==
    /\ response.status = status_code
    /\ response.detail = detail
    /\ response.body = NoBody

SizeAccepted(rq) == validate_request_size(rq.content_length) = NoResponse

EnteredHandler(rq) == SizeAccepted(rq) /\ ScoreRequestValid(rq.n)

LeadAt(start, i) == LeadKinds[((start + i) % Len(LeadKinds)) + 1]

FeatureRow(lead) ==
    [j \in 1..Len(FrameColumns(feature_columns)) |->
        FeatureValue(lead, FrameColumns(feature_columns)[j], NowHours)]

RawScore(lead) == ModelPredict(model, FeatureRow(lead))

\* The result the loaded model gives for one lead taken alone.
ResultFor(lead) ==
    [kind |-> "LeadScore",
     score |-> Clip(RawScore(lead), SCORE_MIN, SCORE_MAX),
     confidence |-> IF model.has_proba
                    THEN ModelPredictProba(model, FeatureRow(lead))
                    ELSE MOCK_CONFIDENCE_VALUE,
     features_used |-> Len(feature_columns)]

ScoresMatchLeads(scores, n, start) ==
    /\ Len(scores) = n
    /\ \A i \in 1..n : scores[i] = ResultFor(LeadAt(start, i))

\* C1: every valid request (1..500 leads, model loaded, no exception in
\* encoding or prediction) is answered 200 with a scores sequence that has
\* one entry per lead, the i-th entry being the result of the i-th lead.
C1_ScoresMatchLeads ==
    \A r \in Reqs :
        (Answered(r) /\ requests[r].predicted) =>
            /\ requests[r].response.status = 200
            /\ requests[r].response.body.kind = "ScoreResponse"
            /\ ScoresMatchLeads(requests[r].response.body.scores,
                                requests[r].n, requests[r].start)

ItemsBounded(items) ==
    \A i \in 1..Len(items) :
        /\ items[i].score \in SCORE_MIN..SCORE_MAX
        /\ items[i].confidence >= 0
        /\ items[i].confidence <= CONFIDENCE_MAX

\* C2: every LeadScore that predict_batch returns, and every LeadScore in a
\* response body, has score in 1..5 and confidence in [0,1], whatever the
\* raw class and probability output of the loaded model.
C2_ScoresBounded ==
    \A r \in Reqs :
        /\ ItemsBounded(requests[r].results.items)
        /\ requests[r].response.body.kind = "ScoreResponse" =>
               ItemsBounded(requests[r].response.body.scores)

RawOutOfRange(n, start) ==
    \E i \in 1..n : RawScore(LeadAt(start, i)) \notin SCORE_MIN..SCORE_MAX

\* C2 witness: predict_batch has returned results for a batch on which the
\* model's raw class output left 1..5.
C2_Witness ==
    \E r \in Reqs :
        /\ requests[r].pc = "predicted"
        /\ Len(requests[r].results.items) = requests[r].n
        /\ RawOutOfRange(requests[r].n, requests[r].start)

\* C3: a request whose prediction succeeded is answered 200 with the
\* computed scores in the body, whatever happens to the sinks afterwards.
C3_ResponseSurvivesSinkFailure ==
    \A r \in Reqs :
        (Answered(r) /\ requests[r].predicted) =>
            /\ requests[r].response.status = 200
            /\ requests[r].response.detail = ""
            /\ requests[r].response.body.kind = "ScoreResponse"
            /\ requests[r].response.body.total_leads = requests[r].n

\* C4: for a request whose prediction succeeded the handler returns with
\* the ScoreResponse constructed and the two fan-out tasks scheduled after
\* it (data-lake write first, metrics publish second), neither awaited.
C4_FanOutAfterResponse ==
    \A r \in Reqs :
        /\ requests[r].tasks # <<>> =>
               requests[r].response.body.kind = "ScoreResponse"
        /\ (Answered(r) /\ requests[r].predicted) =>
               requests[r].tasks = FanOutTasks

PredictionStages == {"encode", "predict", "proba", "LeadScore"}

\* C5: a request in which feature encoding or prediction raised is answered
\* with status 500 and the fixed detail, carries no per-lead result, and
\* has no fan-out task scheduled.
C5_ErrorAbortsBatch ==
    \A r \in Reqs :
        requests[r].raised \in PredictionStages =>
            /\ Answered(r)
            /\ requests[r].response.status = 500
            /\ requests[r].response.detail =
                   "Internal server error during prediction"
            /\ requests[r].response.body = NoBody
            /\ requests[r].tasks = <<>>

\* C5 witness: model.predict raised on a batch of several leads.
C5_Witness ==
    \E r \in Reqs :
        /\ Answered(r)
        /\ requests[r].raised = "predict"
        /\ requests[r].n > 1
        /\ requests[r].response.status = 500

\* C6 (as claimed): with no model loaded every scoring request is answered
\* with 503.
C6_Original ==
    \A r \in Reqs :
        (Answered(r) /\ model = NoModel) => requests[r].response.status = 503

\* C6 (amended): with no model loaded, a request that passes the size check
\* and the schema validation is answered 503 with the descriptive detail,
\* before any encoding or prediction and with no fan-out task; a request
\* that fails them is answered 413 or 422 without entering the handler.
C6_NotLoadedGives503 ==
    \A r \in Reqs :
        model = NoModel =>
            /\ requests[r].pc \in {"idle", "handler", "done"}
            /\ requests[r].raised = "none"
            /\ ~requests[r].predicted
            /\ requests[r].tasks = <<>>
            /\ Answered(r) =>
                  IF EnteredHandler(requests[r])
                  THEN IsError(requests[r].response, 503,
                               "Model not available. Please try again later.")
                  ELSE requests[r].response.status \in {413, 422}

\* C6 witness: a well-formed request was answered 503 while no model is
\* loaded.
C6_Witness ==
    \E r \in Reqs :
        /\ model = NoModel
        /\ Answered(r)
        /\ EnteredHandler(requests[r])
        /\ requests[r].response.status = 503

C8_BatchSizeLimits ==
    \A r \in Reqs :
        (Answered(r) /\ SizeAccepted(requests[r])) =>
            /\ (requests[r].n = 0 \/ requests[r].n > MAX_LEADS) =>
                   /\ requests[r].response.status = 422
                   /\ ~requests[r].predicted
                   /\ requests[r].tasks = <<>>
            /\ (requests[r].n = MAX_LEADS /\ requests[r].predicted) =>
                   /\ requests[r].response.status = 200
                   /\ requests[r].response.body.kind = "ScoreResponse"
                   /\ requests[r].response.body.total_leads = MAX_LEADS

ValueAbsent(value) == value = NoneValue

\* C10 (as claimed): absent -> 0, present and in the list -> index + 1,
\* present and not in the list -> len(list) + 1.
C10_Original ==
    enc.called =>
        /\ ValueAbsent(enc.value) => enc.result = 0
        /\ (~ValueAbsent(enc.value) /\ InList(enc.categories, enc.value)) =>
               enc.result \in 1..Len(enc.categories)
        /\ (~ValueAbsent(enc.value) /\ ~InList(enc.categories, enc.value)) =>
               enc.result = Len(enc.categories) + 1

ValueEmpty(value) == value = NoneValue \/ value = ""

\* C10 (amended): an absent or empty-string value encodes to 0; a non-empty
\* value in the list encodes to the 1-based position of its first
\* occurrence; a non-empty value not in the list encodes to len(list) + 1;
\* so the result tells the three cases apart.
C10_ThreeWayEncoding ==
    enc.called =>
        /\ enc.result \in 0..(Len(enc.categories) + 1)
        /\ enc.result = 0 <=> ValueEmpty(enc.value)
        /\ enc.result \in 1..Len(enc.categories) =>
               /\ enc.categories[enc.result] = enc.value
               /\ \A j \in 1..(enc.result - 1) :
                      enc.categories[j] # enc.value
        /\ enc.result = Len(enc.categories) + 1 <=>
               (~ValueEmpty(enc.value) /\ ~InList(enc.categories, enc.value))

\* C10 witness: a known value was encoded against a list in which it is
\* not the first entry.
C10_Witness ==
    /\ enc.called
    /\ Len(enc.categories) >= 2
    /\ enc.result = 2
    /\ enc.categories[2] = enc.value

\* The positions of a column name in the returned frame.
ColumnsNamed(name) ==
    { j \in 1..Len(prep.frame.columns) : prep.frame.columns[j] = name }

PrepLeadIndex == 1..Len(prep.lead_features)

\* The number of whole days from timestamp hours to now, or 0 when the
\* timestamp is after now.
IsWholeDaysSince(days, now, hours) ==
    IF hours > now
    THEN days = 0
    ELSE /\ days >= 0
         /\ days * HoursPerDay <= now - hours
         /\ now - hours < (days + 1) * HoursPerDay

\* C11: for every lead of an encoded batch the days_since_last_interaction
\* feature is derived: it is the sentinel 999 when the lead has no
\* last-interaction timestamp, and otherwise the whole days between now and
\* the timestamp, 0 (never negative) for a timestamp in the future.
C11_DaysSinceInteraction ==
    prep.called =>
        /\ ~prep.raised
        /\ Len(prep.frame.rows) = Len(prep.lead_features)
        /\ \A i \in PrepLeadIndex :
             \A j \in ColumnsNamed("days_since_last_interaction") :
                LET t == prep.lead_features[i].last_campaign_interaction
                    days == prep.frame.rows[i][j]
                IN  IF t.kind = "NoneType"
                    THEN days = DEFAULT_DAYS_SINCE_INTERACTION
                    ELSE IsWholeDaysSince(days, prep.now, t.hours)

\* The same for the batches the encoder does not raise on (timestamps
\* without a time zone).
DaysSinceWhenEncoded ==
    (prep.called /\ ~prep.raised) =>
        \A i \in PrepLeadIndex :
             \A j \in ColumnsNamed("days_since_last_interaction") :
                LET t == prep.lead_features[i].last_campaign_interaction
                    days == prep.frame.rows[i][j]
                IN  IF t.kind = "NoneType"
                    THEN days = DEFAULT_DAYS_SINCE_INTERACTION
                    ELSE IsWholeDaysSince(days, prep.now, t.hours)

\* The numeric fields of a lead; each is encoded under its own name.
NumericFields ==
    {"email_engagement_score", "website_sessions", "pages_viewed",
     "time_on_site", "form_fills", "content_downloads",
     "campaign_touchpoints", "account_revenue", "account_employees"}

\* The column names the encoder derives a value for.
DerivedNames == { BaseColumns[j] : j \in 1..Len(BaseColumns) } \cup CustomKeys

\* One row per lead in input order, one value per column of the frame; a
\* column the encoder does not derive is 0, a numeric field is the lead's
\* own value, 0 when the lead does not have it.
RowsMatchLeads ==
    /\ Len(prep.frame.rows) = Len(prep.lead_features)
    /\ \A i \in PrepLeadIndex :
          /\ Len(prep.frame.rows[i]) = Len(prep.frame.columns)
          /\ \A j \in 1..Len(prep.frame.columns) :
                LET col == prep.frame.columns[j]
                    value == prep.frame.rows[i][j]
                IN  /\ col \notin DerivedNames => value = 0
                    /\ col \in NumericFields =>
                          IF prep.lead_features[i][col] = NoNumber
                          THEN value = 0
                          ELSE value = prep.lead_features[i][col]

\* The claim of C12 as stated: for any batch and any loaded schema the
\* frame has one row per lead in input order and exactly the schema's
\* columns in schema order, with 0 for underived and absent values.
C12_Original ==
    (prep.called /\ ~prep.raised) =>
        /\ prep.frame.columns = prep.columns
        /\ RowsMatchLeads

\* C12: for any batch and any non-empty loaded schema the feature matrix
\* has one row per lead in input order and exactly the schema's columns in
\* schema order; every schema column the encoder does not derive is 0 and
\* every absent numeric field is 0.  With an empty schema the matrix has
\* the encoder's own 50 derived columns.
C12_FeatureMatrixShape ==
    (prep.called /\ ~prep.raised) =>
        /\ prep.columns # <<>> => prep.frame.columns = prep.columns
        /\ prep.columns = <<>> => prep.frame.columns = BaseColumns \o CustomColumns
        /\ RowsMatchLeads

\* A batch of two different leads was encoded against a schema with an
\* underived column; the first lead has no website_sessions, the second
\* has some.
C12_Witness ==
    /\ prep.called /\ ~prep.raised
    /\ Len(prep.lead_features) = 2
    /\ prep.lead_features[1].website_sessions = NoNumber
    /\ prep.lead_features[2].website_sessions > 0
    /\ \E j \in 1..Len(prep.columns) : prep.columns[j] \notin DerivedNames
    /\ \E j \in ColumnsNamed("website_sessions") :
          /\ prep.frame.rows[1][j] = 0
          /\ prep.frame.rows[2][j] = prep.lead_features[2].website_sessions

BaseNames == { BaseColumns[j] : j \in 1..Len(BaseColumns) }

\* The value a lead carries under a custom key, 0 without map or key.
StoredCustomValue(lead, key) ==
    IF lead.custom_features.kind = "dict"
       /\ key \in DOMAIN lead.custom_features.map
    THEN lead.custom_features.map[key]
    ELSE 0

\* Every column whose name is in the given set holds, for every lead, the
\* value the lead stores under that name.
CustomColumnsFollowMap(names) ==
    \A i \in PrepLeadIndex :
        \A j \in 1..Len(prep.frame.columns) :
            prep.frame.columns[j] \in names =>
                prep.frame.rows[i][j] =
                    StoredCustomValue(prep.lead_features[i],
                                      prep.frame.columns[j])

\* C13: for every custom feature name the schema declares (every schema
\* column that is not one of the encoder's 16 fixed columns), the encoded
\* value is the value the lead stores under exactly that key, 0 when the
\* key or the whole map is absent, whatever the name of the key.
C13_CustomFeaturesByKey ==
    (prep.called /\ ~prep.raised) =>
        CustomColumnsFollowMap(
            { prep.frame.columns[j] : j \in 1..Len(prep.frame.columns) }
                \ BaseNames)

\* The same for the 34 names the encoder reads.
CustomFeaturesInRange ==
    (prep.called /\ ~prep.raised) => CustomColumnsFollowMap(CustomKeys)

\* The confidence the loaded model gives a lead: its maximum class
\* probability for the lead's row, or the fixed value without predict_proba.
ExpectedConfidence(lead) ==
    IF model.has_proba
    THEN ModelPredictProba(model, FeatureRow(lead))
    ELSE MOCK_CONFIDENCE_VALUE

ConfidencesMatch(items, predictions, n, start) ==
    /\ Len(items) = Len(predictions)
    /\ Len(items) = n
    /\ \A i \in 1..Len(items) :
          items[i].confidence = ExpectedConfidence(LeadAt(start, i))

\* C14: in every result list predict_batch returns, the confidence of a
\* row is the model's maximum class probability for that row when the
\* model has predict_proba and the fixed 0.8 otherwise; there are as many
\* confidences as predictions; and a request is never failed at the
\* probability stage when the model has no predict_proba.
C14_ConfidenceSource ==
    \A r \in Reqs :
        /\ requests[r].pc = "predicted" =>
              ConfidencesMatch(requests[r].results.items,
                               requests[r].predictions,
                               requests[r].n, requests[r].start)
        /\ requests[r].raised = "proba" => model.has_proba

\* predict_batch returned results for several leads from a model without
\* predict_proba, each with confidence 0.8.
C14_Witness ==
    \E r \in Reqs :
        /\ requests[r].pc = "predicted"
        /\ ~model.has_proba
        /\ requests[r].n >= 2
        /\ Len(requests[r].results.items) = requests[r].n
        /\ \A i \in 1..requests[r].n :
              requests[r].results.items[i].confidence = MOCK_CONFIDENCE_VALUE

\* predict_batch returned results from a model with predict_proba, and two
\* rows of the batch have different confidences.
ProbaConfidencesDiffer ==
    \E r \in Reqs :
        /\ requests[r].pc = "predicted"
        /\ model.has_proba
        /\ \E i, j \in 1..Len(requests[r].results.items) :
              requests[r].results.items[i].confidence #
                  requests[r].results.items[j].confidence

\* The model's native classes are the zero-based 0..4.
ZeroBasedClasses(m) ==
    /\ m # NoModel
    /\ { m.labels[k] : k \in 1..Len(m.labels) } = 0..(SCORE_MAX - 1)

ScoresAreClassPlusOne(items, start) ==
    \A i \in 1..Len(items) :
        items[i].score = RawScore(LeadAt(start, i)) + 1

\* C15: when the loaded model's native classes are 0..4, every result
\* predict_batch returns reports native class k as score k + 1 (so that
\* different native classes give different scores).
C15_ZeroBasedOffset ==
    \A r \in Reqs :
        (requests[r].pc = "predicted" /\ ZeroBasedClasses(model)) =>
            ScoresAreClassPlusOne(requests[r].results.items,
                                  requests[r].start)

\* C19: the liveness probe is always answered 200 {status: alive}; the
\* readiness probe is answered 200 {status: ready} exactly when the
\* predictor holds a model and 503 with a reason otherwise; the health
\* endpoint says "healthy" exactly when its model_loaded is true, which is
\* exactly when the predictor holds a model, and "degraded" otherwise.
C19_HealthProbes ==
    /\ probe.endpoint = "/health/live" =>
          probe.status = 200 /\ probe.body.status = "alive"
    /\ probe.endpoint = "/health/ready" =>
          IF model # NoModel
          THEN probe.status = 200 /\ probe.body.status = "ready"
          ELSE /\ probe.status = 503
               /\ probe.body.status = "not ready"
               /\ probe.body.reason # ""
    /\ probe.endpoint = "/health" =>
          /\ probe.status = 200
          /\ probe.body.model_loaded = (model # NoModel)
          /\ probe.body.status =
                IF probe.body.model_loaded THEN "healthy" ELSE "degraded"

\* The readiness probe was answered 503 while no model is loaded and a
\* scoring request has been answered.
C19_Witness ==
    /\ probe.endpoint = "/health/ready"
    /\ probe.status = 503
    /\ model = NoModel
    /\ \E r \in Reqs : Answered(r)

\* The health endpoint said "healthy" with a model loaded.
HealthyReached ==
    /\ probe.endpoint = "/health"
    /\ probe.body.status = "healthy"
    /\ model # NoModel

\* C16: every scoring request for which predict_batch returned results is
\* answered 200 with a body that echoes the request's request_id (the
\* caller's, or the generated one), has total_leads equal to the number of
\* leads submitted, the version of the loaded model and status "success".
C16_ResponseEchoesRequest ==
    \A r \in Reqs :
        (Answered(r) /\ requests[r].predicted) =>
            /\ requests[r].response.status = 200
            /\ requests[r].response.body.kind = "ScoreResponse"
            /\ requests[r].response.body.request_id = requests[r].request_id
            /\ requests[r].response.body.total_leads = requests[r].n
            /\ requests[r].response.body.model_version = model_version
            /\ requests[r].response.body.status = "success"

ErrorStatuses == {400, 413, 422, 503, 500}

\* The response carries this id, in its body or in its X-Request-ID header.
CarriesId(response, id) ==
    \/ response.x_request_id = id
    \/ /\ response.body.kind = "ScoreResponse"
       /\ response.body.request_id = id

\* C17: every error response (400, 413, 422, 503, 500) carries a
\* non-empty reason string, and carries the caller's request id whenever
\* the caller supplied one.
C17_ErrorsKeepCallerId ==
    \A r \in Reqs :
        (Answered(r) /\ requests[r].response.status \in ErrorStatuses) =>
            /\ requests[r].response.detail # ""
            /\ requests[r].supplied =>
                  CarriesId(requests[r].response, requests[r].request_id)

\* What the error responses do carry: a reason, and the id the logging
\* middleware generated for the request.
ErrorsCarryReasonAndMiddlewareId ==
    \A r \in Reqs :
        (Answered(r) /\ requests[r].response.status \in ErrorStatuses) =>
            /\ requests[r].response.detail # ""
            /\ requests[r].response.body = NoBody
            /\ requests[r].response.x_request_id = MiddlewareUuid(r)

\* C18: a scoring request whose body is larger than 10 MiB never enters
\* the handler and is answered 413 with no model work done; a request
\* whose body is at most 10 MiB is never answered 413.
C18_BodySizeLimit ==
    \A r \in Reqs :
        /\ requests[r].body_bytes > MAX_REQUEST_BYTES =>
              /\ requests[r].pc = "done"
              /\ requests[r].response.status = 413
              /\ ~requests[r].predicted
              /\ requests[r].raised = "none"
        /\ (Answered(r) /\ requests[r].body_bytes <= MAX_REQUEST_BYTES) =>
              requests[r].response.status # 413

\* The same for the content-length header, which is what the code checks.
ContentLengthLimit ==
    \A r \in Reqs :
        requests[r].pc # "idle" =>
            IF requests[r].content_length # NoLength
               /\ requests[r].content_length > MAX_REQUEST_BYTES
            THEN /\ requests[r].pc = "done"
                 /\ requests[r].response.status = 413
                 /\ ~requests[r].predicted
                 /\ requests[r].raised = "none"
            ELSE requests[r].response.status # 413

FeaturesUsedIs(items, count) ==
    \A i \in 1..Len(items) : items[i].features_used = count

\* C20: every result predict_batch returns has features_used equal to the
\* number of columns of the loaded schema, whatever fields its lead has,
\* and the model-info endpoint reports the same number as features_count.
C20_FeaturesUsedIsSchemaWidth ==
    /\ \A r \in Reqs :
          requests[r].pc = "predicted" =>
              FeaturesUsedIs(requests[r].results.items, Len(feature_columns))
    /\ probe.endpoint = "/model/info" =>
          probe.body.info.features_count = Len(feature_columns)

\* predict_batch returned results for two leads with different fields from
\* a model whose schema is not the encoder's own, while the model-info
\* endpoint has reported the same count.
C20_Witness ==
    /\ probe.endpoint = "/model/info"
    /\ Len(feature_columns) # Len(BaseColumns \o CustomColumns)
    /\ \E r \in Reqs :
          /\ requests[r].pc = "predicted"
          /\ requests[r].n = 2
          /\ LeadAt(requests[r].start, 1) # LeadAt(requests[r].start, 2)
          /\ \A i \in 1..2 :
                requests[r].results.items[i].features_used =
                    probe.body.info.features_count

\* ---------------------------------------------------------------------
\* DataLakeWriter._write_to_kinesis_async (data_lake.py)
\* ---------------------------------------------------------------------

\* Every variable but the sinks, as after startup with the mock model and
\* no request in flight.
ServiceIdle ==
    /\ model = _load_mock_model.model
    /\ feature_columns = _load_mock_model.feature_columns
    /\ model_version = _load_mock_model.model_version
    /\ load_error = TRUE
    /\ requests = [r \in Reqs |-> IdleRequest]
    /\ enc = NoCall
    /\ prep = NoPrep
    /\ probe = NoProbe

\* "Kinesis batch limit is 500 records"
KINESIS_BATCH_LIMIT == 500

\* The record lists handed to _write_to_kinesis_async: up to
\* MaxKinesisBatches full batches plus a remainder.  A record is modelled
\* by its position in the input list.
KinesisRemainders == {0, 1, KINESIS_BATCH_LIMIT - 1}

KinesisSizes ==
    {k * KINESIS_BATCH_LIMIT + d : k \in 0..MaxKinesisBatches,
                                   d \in KinesisRemainders}

KinesisRecords(n) == [i \in 1..n |-> i]

\* The for loop of _write_to_kinesis_async from input position i with the
\* list kinesis_records = pending, up to the next await.  Each iteration
\* appends one record and then tests the length, so the loop appends
\* records until the list has reached the batch limit (send = TRUE) or the
\* input is exhausted (send = FALSE).
KinesisFill(records, i, pending) ==
    LET left == Len(records) - i + 1
        room == Max(1, KINESIS_BATCH_LIMIT - Len(pending))
        take == IF left <= 0 THEN 0 ELSE Min(room, left)
        appended == pending \o SubSeq(records, i, i + take - 1)
    IN  [i |-> i + take, pending |-> appended,
         send |-> take > 0 /\ Len(appended) >= KINESIS_BATCH_LIMIT]

\* The outcomes of one put_records call: it returns with no failed record,
\* returns with FailedRecordCount > 0 (a warning is logged), or raises.
PutRecordsOutcomes == {"ok", "failed_records", "raised"}

KinesisInit ==
    /\ ServiceIdle
    /\ met = NoMet
    /\ clients = NoClients
    /\ lake = NoLake
    /\ fan = NoFan
    /\ \E n \in KinesisSizes :
          kin = [called |-> TRUE, records |-> KinesisRecords(n), i |-> 1,
                 pending |-> <<>>, pc |-> "running", tail |-> FALSE,
                 attempts |-> <<>>, warnings |-> 0]

\* _write_to_kinesis_async runs to its next await of _send_kinesis_batch,
\* or returns when nothing is left to send.
KinesisSend ==
    /\ kin.called
    /\ kin.pc = "running"
    /\ LET f == KinesisFill(kin.records, kin.i, kin.pending) IN
       IF f.send
       THEN kin' = [kin EXCEPT
                !.i = f.i,
                !.pending = SubSeq(f.pending, KINESIS_BATCH_LIMIT + 1,
                                   Len(f.pending)),
                !.pc = "sending",
                !.attempts = Append(@,
                    [records |-> SubSeq(f.pending, 1, KINESIS_BATCH_LIMIT),
                     outcome |-> "in_flight"])]
       ELSE IF f.pending # <<>> /\ ~kin.tail
            THEN kin' = [kin EXCEPT
                     !.i = f.i, !.pending = f.pending, !.pc = "sending",
                     !.tail = TRUE,
                     !.attempts = Append(@, [records |-> f.pending,
                                             outcome |-> "in_flight"])]
            ELSE kin' = [kin EXCEPT !.i = f.i, !.pc = "returned"]
    /\ UNCHANGED <<predictor_vars, requests, enc, prep, probe, met, clients,
                   lake, fan>>

\* _write_to_kinesis_async after the awaited batch: a raised exception is
\* logged and re-raised, anything else lets the function go on.
KinesisAfterPut_swallow(k, outcome) ==
    [k EXCEPT !.pc = IF k.tail THEN "returned" ELSE "running",
              !.attempts[Len(k.attempts)].outcome = outcome,
              !.warnings = IF outcome = "failed_records" THEN @ + 1 ELSE @]

KinesisAfterPut(k, outcome) ==
    [k EXCEPT !.pc = IF outcome = "raised" THEN "raised"
                     ELSE IF k.tail THEN "returned" ELSE "running",
              !.attempts[Len(k.attempts)].outcome = outcome,
              !.warnings = IF outcome = "failed_records" THEN @ + 1 ELSE @]

\* _kinesis_put_records in the executor: one put_records call.
_kinesis_put_records ==
    /\ kin.called
    /\ kin.pc = "sending"
    /\ \E outcome \in PutRecordsOutcomes :
          kin' = KinesisAfterPut(kin, outcome)
    /\ UNCHANGED <<predictor_vars, requests, enc, prep, probe, met, clients,
                   lake, fan>>

KinesisNext ==
    \/ KinesisSend
    \/ _kinesis_put_records

KinesisSpec == KinesisInit /\ [][KinesisNext]_vars

RECURSIVE KinesisSent(_)
KinesisSent(attempts) ==
    IF attempts = <<>> THEN <<>>
    ELSE KinesisSent(SubSeq(attempts, 1, Len(attempts) - 1))
             \o attempts[Len(attempts)].records

\* C29: _write_to_kinesis_async hands the records to put_records in calls
\* of at most 500 records, in input order and each record once; when it
\* returns every record has been sent; a call that raises is the last one
\* (the remaining batches are not sent) and the function raises.
C29_KinesisBatches ==
    kin.called =>
        LET sent == KinesisSent(kin.attempts)
            last == Len(kin.attempts) IN
        /\ \A j \in 1..last :
              /\ Len(kin.attempts[j].records) \in 1..KINESIS_BATCH_LIMIT
              /\ j < last => kin.attempts[j].outcome \in
                                 {"ok", "failed_records"}
        /\ Len(sent) <= Len(kin.records)
        /\ sent = SubSeq(kin.records, 1, Len(sent))
        /\ kin.pc = "returned" =>
              /\ sent = kin.records
              /\ \A j \in 1..last : kin.attempts[j].outcome # "raised"
        /\ kin.pc = "raised" <=>
              (last > 0 /\ kin.attempts[last].outcome = "raised")

\* A list of two full batches and one record was sent in three calls.
C29_Witness ==
    /\ kin.called
    /\ kin.pc = "returned"
    /\ Len(kin.records) = 2 * KINESIS_BATCH_LIMIT + 1
    /\ Len(kin.attempts) = 3
    /\ Len(kin.attempts[3].records) = 1

\* The first batch of a longer list raised and ended the call.
KinesisAborted ==
    /\ kin.called
    /\ kin.pc = "raised"
    /\ Len(kin.attempts) = 1
    /\ Len(kin.records) > KINESIS_BATCH_LIMIT

\* ---------------------------------------------------------------------
\* CloudWatchMetrics._publish_metrics_sync (metrics.py)
\* ---------------------------------------------------------------------

\* "CloudWatch allows max 20 metrics per put_metric_data call"
chunk_size == 20

\* What a metric's "Value" can be: a finite number, None, NaN, an infinity,
\* or no "Value" key at all (metric.get("Value") is then None).
MetricValues == <<"finite", "none", "nan", "inf", "-inf", "missing">>

InvalidValue(i) == MetricValues[2 + (i % 5)]

\* The metric lists handed to _publish_metrics_sync: n metrics of which
\* every stride-th has an invalid value (none when stride is 0).  A metric
\* carries its position in the list as its name.
MetricStrides == 0..3

MetricSizes ==
    {k * chunk_size + d : k \in 0..MaxMetricChunks,
                          d \in {0, 1, chunk_size - 1}}

MetricsData(n, stride) ==
    [i \in 1..n |->
        [MetricName |-> i,
         Value |-> IF stride > 0 /\ i % stride = 0
                   THEN InvalidValue(i) ELSE "finite"]]

\* value is not None and pd.notna(value) and np.isfinite(value)
IsValidMetric_notna_only(metric) ==
    /\ metric.Value \notin {"none", "missing"}
    /\ metric.Value # "nan"

IsValidMetric(metric) ==
    /\ metric.Value \notin {"none", "missing"}
    /\ metric.Value # "nan"
    /\ metric.Value \notin {"nan", "inf", "-inf"}

MetricsInit ==
    /\ ServiceIdle
    /\ kin = NoKin
    /\ clients = NoClients
    /\ lake = NoLake
    /\ fan = NoFan
    /\ \E n \in MetricSizes, stride \in MetricStrides :
          met = [called |-> TRUE, metrics_data |-> MetricsData(n, stride),
                 valid_metrics |-> <<>>, i |-> 0, pc |-> "called",
                 calls |-> <<>>]

\* _publish_metrics_sync up to its loop: the two early returns and the
\* filter.
_publish_metrics_sync ==
    /\ met.called
    /\ met.pc = "called"
    /\ LET valid_metrics == SelectSeq(met.metrics_data, IsValidMetric) IN
       met' = [met EXCEPT
                  !.valid_metrics = valid_metrics,
                  !.pc = IF met.metrics_data = <<>> \/ valid_metrics = <<>>
                         THEN "returned" ELSE "publishing"]
    /\ UNCHANGED <<predictor_vars, requests, enc, prep, probe, kin, clients,
                   lake, fan>>

\* One iteration of the loop: put_metric_data with the next chunk.  The
\* call returns or raises; nothing in _publish_metrics_sync catches the
\* exception, so it ends the function.
put_metric_data ==
    /\ met.called
    /\ met.pc = "publishing"
    /\ LET chunk == SubSeq(met.valid_metrics, met.i + 1,
                           Min(met.i + chunk_size, Len(met.valid_metrics)))
       IN \E raised \in BOOLEAN :
             met' = [met EXCEPT
                 !.calls = Append(@, [MetricData |-> chunk,
                                      raised |-> raised]),
                 !.i = @ + chunk_size,
                 !.pc = IF raised THEN "raised"
                        ELSE IF met.i + chunk_size < Len(met.valid_metrics)
                             THEN "publishing" ELSE "returned"]
    /\ UNCHANGED <<predictor_vars, requests, enc, prep, probe, kin, clients,
                   lake, fan>>

MetricsNext ==
    \/ _publish_metrics_sync
    \/ put_metric_data

MetricsSpec == MetricsInit /\ [][MetricsNext]_vars

RECURSIVE MetricsPut(_)
MetricsPut(calls) ==
    IF calls = <<>> THEN <<>>
    ELSE MetricsPut(SubSeq(calls, 1, Len(calls) - 1))
             \o calls[Len(calls)].MetricData

HasFiniteValue(metric) == metric.Value = "finite"

\* C30: _publish_metrics_sync hands to put_metric_data only metrics whose
\* value is a finite number, in the order of its input and each at most
\* once, in calls of 1 to 20 metrics; when it returns, every such metric
\* has been handed over; it makes no call when there is no such metric.
\* (A put_metric_data call that raises ends the function with that
\* exception: it is then the last call.)
C30_MetricChunks ==
    met.called =>
        LET expected == SelectSeq(met.metrics_data, HasFiniteValue)
            put == MetricsPut(met.calls)
            last == Len(met.calls) IN
        /\ \A j \in 1..last :
              /\ Len(met.calls[j].MetricData) \in 1..chunk_size
              /\ j < last => ~met.calls[j].raised
        /\ Len(put) <= Len(expected)
        /\ put = SubSeq(expected, 1, Len(put))
        /\ met.pc = "returned" =>
              /\ put = expected
              /\ \A j \in 1..last : ~met.calls[j].raised
        /\ expected = <<>> => met.calls = <<>>
        /\ met.pc = "raised" <=> (last > 0 /\ met.calls[last].raised)

\* A list with invalid values of every kind was published in more than one
\* call, the last one shorter than a full chunk.
C30_Witness ==
    /\ met.called
    /\ met.pc = "returned"
    /\ Len(met.calls) >= 2
    /\ Len(met.calls[Len(met.calls)].MetricData) < chunk_size
    /\ \A k \in 2..6 :
          \E i \in 1..Len(met.metrics_data) :
              met.metrics_data[i].Value = MetricValues[k]

\* A list of invalid values only returned without a call.
NothingToPublish ==
    /\ met.called
    /\ met.pc = "returned"
    /\ met.metrics_data # <<>>
    /\ met.calls = <<>>

\* ---------------------------------------------------------------------
\* DataLakeWriter._ensure_clients in the executor's worker threads
\* (data_lake.py)
\* ---------------------------------------------------------------------

\* Worker threads of self.executor that run jobs at the same time.
Threads == 1..MaxThreads

\* The two jobs submitted to the executor.
ExecutorJobs == {"_s3_put_object", "_kinesis_put_records"}

\* A client attribute that is still None.
NoClient == 0

IdleThread == [pc |-> "idle", job |-> "none", handle |-> NoClient]

\* clients.s3_client and clients.kinesis_client hold NoClient or the number
\* of the boto3 client object assigned last; clients.built counts the
\* boto3.client(...) calls made for each attribute.
ClientInit ==
    /\ ServiceIdle
    /\ kin = NoKin
    /\ met = NoMet
    /\ lake = NoLake
    /\ fan = NoFan
    /\ clients = [used |-> TRUE, s3_client |-> NoClient,
                  kinesis_client |-> NoClient,
                  built |-> [s3 |-> 0, kinesis |-> 0],
                  threads |-> [t \in Threads |-> IdleThread]]

ClientFrame ==
    UNCHANGED <<predictor_vars, requests, enc, prep, probe, kin, met, lake,
                fan>>

\* run_in_executor hands a job to an idle worker thread; the job starts
\* with _ensure_clients().
Submit(t) ==
    /\ clients.used
    /\ clients.threads[t].pc = "idle"
    /\ \E job \in ExecutorJobs :
          clients' = [clients EXCEPT
              !.threads[t] = [pc |-> "check_s3", job |-> job,
                              handle |-> NoClient]]
    /\ ClientFrame

\* if not self.s3_client:
CheckS3(t) ==
    /\ clients.used
    /\ clients.threads[t].pc = "check_s3"
    /\ clients' = [clients EXCEPT
          !.threads[t].pc = IF clients.s3_client = NoClient
                            THEN "build_s3" ELSE "check_kinesis"]
    /\ ClientFrame

\* self.s3_client = boto3.client('s3', ...)
BuildS3(t) ==
    /\ clients.used
    /\ clients.threads[t].pc = "build_s3"
    /\ clients' = [clients EXCEPT
          !.built.s3 = @ + 1,
          !.s3_client = clients.built.s3 + 1,
          !.threads[t].pc = "check_kinesis"]
    /\ ClientFrame

\* if not self.kinesis_client:
CheckKinesis(t) ==
    /\ clients.used
    /\ clients.threads[t].pc = "check_kinesis"
    /\ clients' = [clients EXCEPT
          !.threads[t].pc = IF clients.kinesis_client = NoClient
                            THEN "build_kinesis" ELSE "call"]
    /\ ClientFrame

\* self.kinesis_client = boto3.client('kinesis', ...)
BuildKinesis(t) ==
    /\ clients.used
    /\ clients.threads[t].pc = "build_kinesis"
    /\ clients' = [clients EXCEPT
          !.built.kinesis = @ + 1,
          !.kinesis_client = clients.built.kinesis + 1,
          !.threads[t].pc = "call"]
    /\ ClientFrame

\* self.s3_client.put_object(...) or self.kinesis_client.put_records(...):
\* the job reads the attribute and calls the client it finds there.
ClientCall(t) ==
    /\ clients.used
    /\ clients.threads[t].pc = "call"
    /\ clients' = [clients EXCEPT
          !.threads[t].pc = "called",
          !.threads[t].handle =
              IF clients.threads[t].job = "_s3_put_object"
              THEN clients.s3_client ELSE clients.kinesis_client]
    /\ ClientFrame

\* The job returns and the worker thread is free again.
JobDone(t) ==
    /\ clients.used
    /\ clients.threads[t].pc = "called"
    /\ clients' = [clients EXCEPT !.threads[t].pc = "idle"]
    /\ ClientFrame

ClientNext ==
    \E t \in Threads :
        \/ Submit(t)
        \/ CheckS3(t)
        \/ BuildS3(t)
        \/ CheckKinesis(t)
        \/ BuildKinesis(t)
        \/ ClientCall(t)
        \/ JobDone(t)

ClientSpec == ClientInit /\ [][ClientNext]_vars

\* C23: each client is constructed at most once, and every job calls the
\* client constructed first.
C23_ClientsBuiltOnce ==
    clients.used =>
        /\ clients.built.s3 <= 1
        /\ clients.built.kinesis <= 1
        /\ \A t \in Threads :
              clients.threads[t].pc = "called" =>
                  clients.threads[t].handle = 1

\* ---------------------------------------------------------------------
\* Concurrent scoring requests on the one predictor (predictor.py)
\* ---------------------------------------------------------------------

\* Request slots in flight together on the event loop.
ConcReqs == 1..MaxConcurrent

\* Batches of one and of two leads, within the size limit.
ConcShapes == {<<1, 0>>, <<2, 0>>}

ConcBodies == {[bytes |-> MAX_REQUEST_BYTES, chunked |-> FALSE]}

ConcInit ==
    /\ \E load_raised \in BOOLEAN, artifact \in Artifacts :
          LET p == _load_model(load_raised, artifact) IN
          /\ model = p.model
          /\ feature_columns = p.feature_columns
          /\ model_version = p.model_version
          /\ load_error = load_raised
    /\ requests = [r \in ConcReqs |-> IdleRequest]
    /\ enc = NoCall
    /\ prep = NoPrep
    /\ probe = NoProbe
    /\ SinksIdle

ReceiveConc(r) == Arrive(r, ConcShapes, ConcBodies, {TRUE})

ConcNext ==
    \/ \E r \in ConcReqs :
          \/ ReceiveConc(r)
          \/ score_leads(r)
          \/ predict_sync(r)
          \/ predict_batch_return(r)
          \/ score_leads_return(r)
    \/ health_check
    \/ model_info

ConcSpec == ConcInit /\ [][ConcNext]_vars

\* Every request that holds the results of predict_batch holds results of
\* the loaded schema.
SameSchema ==
    \A r \in ConcReqs :
        requests[r].pc = "predicted" =>
            FeaturesUsedIs(requests[r].results.items, Len(feature_columns))

\* C24: no step of a scoring request, of the model-info endpoint or of the
\* health endpoint changes the model object, feature_columns or
\* model_version, however the steps of concurrent requests interleave, and
\* after every step all requests that hold results hold results of the
\* same (loaded) schema.
C24_ArtifactReadOnly ==
    [][/\ model' = model
       /\ feature_columns' = feature_columns
       /\ model_version' = model_version
       /\ SameSchema']_vars

\* Two requests of different batch sizes hold the results of predict_batch
\* at the same time, and the model-info endpoint has answered meanwhile.
C24_Witness ==
    /\ probe.endpoint = "/model/info"
    /\ probe.body.info.version = model_version
    /\ \E r1, r2 \in DOMAIN requests :
          /\ r1 # r2
          /\ requests[r1].pc = "predicted"
          /\ requests[r2].pc = "predicted"
          /\ requests[r1].n # requests[r2].n

\* ---------------------------------------------------------------------
\* The request id of the fan-out (scoring.py)
\* ---------------------------------------------------------------------

\* request_id = getattr(request.state, "request_id", score_request.request_id):
\* the id both add_task calls pass on.  The logging middleware has always
\* set request.state.request_id, so the default is never taken.
SinkRequestId(rq) == rq.state_request_id

\* ScoreResponse(request_id=score_request.request_id, ...)
EchoedRequestId(rq) == rq.request_id

\* C25: for every request whose prediction succeeded, the request id the
\* handler passes to the two sinks is the request id it echoes in the
\* response.
C25_SinksGetEchoedId ==
    \A r \in Reqs :
        requests[r].predicted =>
            SinkRequestId(requests[r]) = EchoedRequestId(requests[r])

\* ---------------------------------------------------------------------
\* DataLakeWriter.write_predictions_async and the record buffer
\* (data_lake.py)
\* ---------------------------------------------------------------------

batch_size == 100        \* self.batch_size
flush_interval == 5      \* self.flush_interval, in seconds

\* Concurrent calls of write_predictions_async.
Writes == 1..MaxWrites

\* settings.data_lake_bucket and settings.kinesis_stream: set or not.  The
\* writer tests them with hasattr(settings, ...), and the Settings class of
\* config.py declares neither.
LakeSettings == [data_lake_bucket : BOOLEAN, kinesis_stream : BOOLEAN]

\* The numbers of leads of a write: one lead, and a full buffer batch.
WriteSizes == {1, batch_size}

\* The records of write w: one per (lead, score) pair, named by the write
\* and the position of the lead.
WriteRecords(w, n) == [i \in 1..n |-> <<w, i>>]

\* A destination is "none" (not configured), "pending" (its coroutine is
\* in the gather and has not finished), "flushing" (the buffer coroutine
\* awaits the S3 write of its flush), "done" or "raised".  "flush" is a
\* history field: how the flush this call ran, if any, ended.
IdleWrite ==
    [pc |-> "idle", n |-> 0, malformed |-> FALSE, s3 |-> "none",
     kinesis |-> "none", buffer |-> "none", flush |-> "none",
     result |-> "none"]

LakeInit ==
    /\ ServiceIdle
    /\ kin = NoKin
    /\ met = NoMet
    /\ clients = NoClients
    /\ fan = NoFan
    /\ \E config \in LakeSettings :
          lake = [used |-> TRUE, settings |-> config, clock |-> 0,
                  _batch_buffer |-> <<>>, _last_flush |-> 0,
                  _buffer_lock |-> 0, in_flight |-> <<>>,
                  flushes |-> <<>>, flush_failed |-> FALSE,
                  writes |-> [w \in Writes |-> IdleWrite]]

LakeFrame ==
    UNCHANGED <<predictor_vars, requests, enc, prep, probe, kin, met,
                clients, fan>>

\* time.time() advances by one flush interval.
Tick ==
    /\ lake.used
    /\ lake.clock < MaxTicks * flush_interval
    /\ lake' = [lake EXCEPT !.clock = @ + flush_interval]
    /\ LakeFrame

\* write_predictions_async up to the gather: the records are prepared and
\* one coroutine per configured destination is handed to asyncio.gather.
\* A request object the preparation cannot read (malformed) makes the
\* preparation raise; the outer except turns that into False.
write_predictions_async(w) ==
    /\ lake.used
    /\ lake.writes[w].pc = "idle"
    /\ \E n \in WriteSizes, malformed \in BOOLEAN :
          lake' = [lake EXCEPT !.writes[w] =
              IF malformed
              THEN [IdleWrite EXCEPT !.pc = "returned", !.n = n,
                                     !.malformed = TRUE,
                                     !.result = "False"]
              ELSE [IdleWrite EXCEPT
                       !.pc = "gather", !.n = n,
                       !.s3 = IF lake.settings.data_lake_bucket
                              THEN "pending" ELSE "none",
                       !.kinesis = IF lake.settings.kinesis_stream
                                   THEN "pending" ELSE "none",
                       !.buffer = "pending"]]
    /\ LakeFrame

\* _write_to_s3_async of the gather: the put either returns or raises, and
\* the coroutine re-raises.
_write_to_s3_async(w) ==
    /\ lake.used
    /\ lake.writes[w].s3 = "pending"
    /\ \E raised \in BOOLEAN :
          lake' = [lake EXCEPT !.writes[w].s3 =
                       IF raised THEN "raised" ELSE "done"]
    /\ LakeFrame

\* _write_to_kinesis_async of the gather.
_write_to_kinesis_async(w) ==
    /\ lake.used
    /\ lake.writes[w].kinesis = "pending"
    /\ \E raised \in BOOLEAN :
          lake' = [lake EXCEPT !.writes[w].kinesis =
                       IF raised THEN "raised" ELSE "done"]
    /\ LakeFrame

\* len(self._batch_buffer) >= self.batch_size or
\* (time.time() - self._last_flush) >= self.flush_interval
should_flush(buffer, now, last_flush) ==
    \/ Len(buffer) >= batch_size
    \/ now - last_flush >= flush_interval

\* async with self._buffer_lock: the lock can be taken when nobody holds it.
LockFree_always(l) == TRUE

LockFree(l) == l._buffer_lock = 0

\* _flush_buffer after its body completed: the buffer is cleared and
\* _last_flush set.  "written" tells whether the body wrote to S3.
FlushCompleted(l, written) ==
    [l EXCEPT !.flushes = Append(@, [records |-> l.in_flight,
                                     written |-> written]),
              !._batch_buffer = <<>>,
              !._last_flush = l.clock,
              !.in_flight = <<>>,
              !.flush_failed = FALSE,
              !._buffer_lock = 0]

\* _flush_buffer after its S3 write raised: the except branch only logs.
FlushFailed_clearing(l) ==
    [l EXCEPT !._batch_buffer = <<>>,
              !.in_flight = <<>>,
              !.flush_failed = TRUE,
              !._buffer_lock = 0]

FlushFailed(l) ==
    [l EXCEPT !.in_flight = <<>>,
              !.flush_failed = TRUE,
              !._buffer_lock = 0]

\* _buffer_records from taking the lock to its first await or its end: the
\* records are appended, and when a flush is due _flush_buffer either
\* starts the S3 write of the whole buffer (bucket configured) or, with no
\* bucket, completes at once.
_buffer_records(w) ==
    /\ lake.used
    /\ lake.writes[w].buffer = "pending"
    /\ LockFree(lake)
    /\ LET extended == lake._batch_buffer
                           \o WriteRecords(w, lake.writes[w].n)
           l == [lake EXCEPT !._batch_buffer = extended]
       IN  IF ~should_flush(extended, lake.clock, lake._last_flush)
              \/ extended = <<>>
           THEN lake' = [l EXCEPT !.writes[w].buffer = "done"]
           ELSE IF lake.settings.data_lake_bucket
                THEN lake' = [l EXCEPT !._buffer_lock = w,
                                       !.in_flight = extended,
                                       !.writes[w].buffer = "flushing"]
                ELSE lake' = [FlushCompleted(
                                  [l EXCEPT !.in_flight = extended], FALSE)
                                 EXCEPT !.writes[w].buffer = "done",
                                        !.writes[w].flush = "completed"]
    /\ LakeFrame

\* The S3 write of a flush returns or raises; _flush_buffer finishes and
\* _buffer_records releases the lock.
_flush_buffer(w) ==
    /\ lake.used
    /\ lake.writes[w].buffer = "flushing"
    /\ \E raised \in BOOLEAN :
          lake' = [(IF raised THEN FlushFailed(lake)
                    ELSE FlushCompleted(lake, TRUE))
                      EXCEPT !.writes[w].buffer = "done",
                             !.writes[w].flush = IF raised THEN "failed"
                                                 ELSE "completed"]
    /\ LakeFrame

\* The result of write_predictions_async once every coroutine of the
\* gather has finished: False when a result is an exception.
GatherResult_s3_only(write) ==
    IF write.s3 = "raised" THEN "False" ELSE "True"

GatherResult(write) ==
    IF \E d \in {write.s3, write.kinesis, write.buffer} : d = "raised"
    THEN "False" ELSE "True"

Finished(d) == d \in {"none", "done", "raised"}

gather_return(w) ==
    /\ lake.used
    /\ lake.writes[w].pc = "gather"
    /\ Finished(lake.writes[w].s3)
    /\ Finished(lake.writes[w].kinesis)
    /\ Finished(lake.writes[w].buffer)
    /\ lake' = [lake EXCEPT !.writes[w].pc = "returned",
                            !.writes[w].result = GatherResult(lake.writes[w])]
    /\ LakeFrame

\* The writes of LakeSpec follow one another, as the background tasks of
\* one request do; the concurrency of the buffer is BufferSpec's.
PreviousWritesReturned(w) ==
    \A v \in Writes : v < w => lake.writes[v].pc = "returned"

NextWrite(w) ==
    /\ PreviousWritesReturned(w)
    /\ write_predictions_async(w)

LakeNext ==
    \/ Tick
    \/ \E w \in Writes :
          \/ NextWrite(w)
          \/ _write_to_s3_async(w)
          \/ _write_to_kinesis_async(w)
          \/ _buffer_records(w)
          \/ _flush_buffer(w)
          \/ gather_return(w)

LakeSpec == LakeInit /\ [][LakeNext]_vars

\* Concurrent calls of _buffer_records on the one buffer.
BufferCall(w) ==
    /\ lake.used
    /\ lake.writes[w].pc = "idle"
    /\ \E n \in WriteSizes :
          lake' = [lake EXCEPT !.writes[w] =
              [IdleWrite EXCEPT !.pc = "buffering", !.n = n,
                                !.buffer = "pending"]]
    /\ LakeFrame

BufferNext ==
    \/ Tick
    \/ \E w \in Writes :
          \/ BufferCall(w)
          \/ _buffer_records(w)
          \/ _flush_buffer(w)

BufferSpec == LakeInit /\ [][BufferNext]_vars

\* ---------------------------------------------------------------------
\* Properties of the data lake writer
\* ---------------------------------------------------------------------

Configured(d) == d # "none"

\* C22: in one write every configured destination is started and can run
\* whatever the others did, and has finished (returned or raised) when the
\* write returns; the write returns False exactly when a destination
\* raised or the record preparation failed, and True otherwise; it never
\* ends with an exception.
C22_DestinationsIndependent ==
    lake.used =>
        \A w \in Writes :
            LET write == lake.writes[w] IN
            /\ (write.pc = "gather" /\ write.s3 = "pending") =>
                   ENABLED _write_to_s3_async(w)
            /\ (write.pc = "gather" /\ write.kinesis = "pending") =>
                   ENABLED _write_to_kinesis_async(w)
            /\ (write.pc = "gather" /\ write.buffer = "pending"
                    /\ lake._buffer_lock = 0) =>
                   ENABLED _buffer_records(w)
            /\ (write.pc \in {"gather", "returned"} /\ ~write.malformed) =>
                   /\ Configured(write.s3) <=>
                          lake.settings.data_lake_bucket
                   /\ Configured(write.kinesis) <=>
                          lake.settings.kinesis_stream
                   /\ Configured(write.buffer)
            /\ write.pc = "returned" =>
                   /\ write.s3 \in {"none", "done", "raised"}
                   /\ write.kinesis \in {"none", "done", "raised"}
                   /\ write.buffer \in {"none", "done", "raised"}
                   /\ write.result \in {"True", "False"}
                   /\ write.result = "False" <=>
                          \/ write.malformed
                          \/ write.s3 = "raised"
                          \/ write.kinesis = "raised"
                          \/ write.buffer = "raised"

\* A write returned False because its Kinesis destination raised, while
\* its S3 and buffer destinations ran to their end.
C22_Witness ==
    /\ lake.used
    /\ \E w \in Writes :
          /\ lake.writes[w].pc = "returned"
          /\ lake.writes[w].kinesis = "raised"
          /\ lake.writes[w].s3 = "done"
          /\ lake.writes[w].buffer = "done"
          /\ lake.writes[w].result = "False"

\* A write with all destinations succeeding returned True.
WriteSucceeded ==
    /\ lake.used
    /\ \E w \in Writes :
          /\ lake.writes[w].pc = "returned"
          /\ lake.writes[w].kinesis = "done"
          /\ lake.writes[w].s3 = "done"
          /\ lake.writes[w].result = "True"

RECURSIVE Flushed(_)
Flushed(flushes) ==
    IF flushes = <<>> THEN <<>>
    ELSE Flushed(SubSeq(flushes, 1, Len(flushes) - 1))
             \o flushes[Len(flushes)].records

Occurrences(seq, x) == Cardinality({k \in 1..Len(seq) : seq[k] = x})

\* C26: a call appends and flushes only while it holds the buffer lock: at
\* most one call is inside a flush, it is the holder of the lock, and
\* nothing has been appended since the flush took its copy of the buffer;
\* every record appended so far is in the buffer or in exactly one
\* completed flush, never in both and never twice.
C26_BufferLock ==
    lake.used =>
        /\ \A w \in Writes :
              lake.writes[w].buffer = "flushing" <=> lake._buffer_lock = w
        /\ lake._buffer_lock # 0 => lake.in_flight = lake._batch_buffer
        /\ LET kept == lake._batch_buffer \o Flushed(lake.flushes) IN
           \A w \in Writes :
               \A i \in 1..lake.writes[w].n :
                   Occurrences(kept, <<w, i>>) =
                       IF lake.writes[w].buffer \in {"flushing", "done"}
                       THEN 1 ELSE 0

\* One call is inside its flush holding the lock while another call, made
\* meanwhile, waits for the lock with its records not yet appended.
C26_Witness ==
    /\ lake.used
    /\ \E w1, w2 \in Writes :
          /\ lake.writes[w1].buffer = "flushing"
          /\ lake.writes[w2].buffer = "pending"
          /\ lake._batch_buffer # <<>>

\* Two concurrent calls have both finished and a flush has completed.
BothBuffered ==
    /\ lake.used
    /\ lake.flushes # <<>>
    /\ \E w1, w2 \in Writes :
          /\ w1 # w2
          /\ lake.writes[w1].buffer = "done"
          /\ lake.writes[w2].buffer = "done"

\* A step in which the flush of call w ends.
FlushEnds(w) ==
    /\ lake.writes[w].buffer = "flushing"
    /\ lake'.writes[w].buffer # "flushing"

\* C27: when the S3 write of a flush raises, the flush ends with the
\* buffer and _last_flush as they were and the buffer destination done
\* (not raised), so a flush is still due at the next call; the buffer
\* shrinks and _last_flush changes only in a step that completes a flush;
\* a write whose flush failed returns False only if its S3 or Kinesis
\* destination raised.
C27_FailedFlushKeepsBuffer ==
    [][/\ \A w \in Writes :
             FlushEnds(w) =>
                 IF lake'.writes[w].flush = "failed"
                 THEN /\ lake'._batch_buffer = lake._batch_buffer
                      /\ lake'._last_flush = lake._last_flush
                      /\ lake'.flushes = lake.flushes
                      /\ lake'.writes[w].buffer = "done"
                      /\ should_flush(lake'._batch_buffer, lake'.clock,
                                      lake'._last_flush)
                 ELSE /\ lake'._batch_buffer = <<>>
                      /\ lake'._last_flush = lake.clock
       /\ (\/ Len(lake'._batch_buffer) < Len(lake._batch_buffer)
           \/ lake'._last_flush # lake._last_flush) =>
              /\ Len(lake'.flushes) = Len(lake.flushes) + 1
              /\ lake'._batch_buffer = <<>>
       /\ lake'.flush_failed =>
              should_flush(lake'._batch_buffer, lake'.clock,
                           lake'._last_flush)
       /\ \A w \in Writes :
             (lake'.writes[w].pc = "returned"
                  /\ lake'.writes[w].flush = "failed") =>
                 (lake'.writes[w].result = "False" <=>
                      \/ lake'.writes[w].s3 = "raised"
                      \/ lake'.writes[w].kinesis = "raised")
      ]_vars

\* A write whose flush failed returned True with its records still in the
\* buffer and _last_flush not advanced.
C27_Witness ==
    /\ lake.used
    /\ \E w \in Writes :
          /\ lake.writes[w].pc = "returned"
          /\ lake.writes[w].flush = "failed"
          /\ lake.writes[w].result = "True"
          /\ Occurrences(lake._batch_buffer, <<w, 1>>) = 1
          /\ lake._last_flush < lake.clock

\* After a failed flush the next write flushed again, with the records of
\* both writes.
FlushRetried ==
    /\ lake.used
    /\ \E w1, w2 \in Writes :
          /\ w1 # w2
          /\ lake.writes[w1].flush = "failed"
          /\ lake.writes[w2].flush = "completed"
          /\ Occurrences(Flushed(lake.flushes), <<w1, 1>>) = 1

\* C28: every flush that removed records from the buffer had written them
\* to the S3 data lake.
C28_RemovedOnlyWhenWritten ==
    lake.used =>
        \A j \in 1..Len(lake.flushes) : lake.flushes[j].written

\* With neither bucket nor stream configured a write returned True and its
\* records are gone from the buffer without having been written anywhere.
RecordsDropped ==
    /\ lake.used
    /\ ~lake.settings.data_lake_bucket
    /\ ~lake.settings.kinesis_stream
    /\ \E w \in Writes :
          /\ lake.writes[w].pc = "returned"
          /\ lake.writes[w].result = "True"
          /\ Occurrences(lake._batch_buffer, <<w, 1>>) = 0

\* ---------------------------------------------------------------------
\* The background tasks of a scored request (scoring.py)
\* ---------------------------------------------------------------------

\* The two add_task calls of score_leads, in their order, with the number
\* of positional arguments each passes.
AddedTasks ==
    <<[func |-> "write_predictions_async", args |-> 6],
      [func |-> "publish_prediction_metrics", args |-> 5]>>

\* The positional parameters (after self) the two sink methods take:
\* write_predictions_async(request_id, request, scores, processing_time_ms,
\* model_version) and publish_prediction_metrics(request_id, scores,
\* processing_time_ms, model_version, engineered_features=None).
Parameters(func) ==
    IF func = "write_predictions_async"
    THEN [least |-> 5, most |-> 5]
    ELSE [least |-> 4, most |-> 5]

\* Whether calling func with that many positional arguments binds; if not
\* the call raises TypeError before the body of func is entered.
Accepts(func, args) ==
    args >= Parameters(func).least /\ args <= Parameters(func).most

IdleRun ==
    [pc |-> "idle", n |-> 0, request_id |-> NoneValue, tasks |-> <<>>,
     next |-> 1, executed |-> <<>>, escaped |-> "none"]

FanInit ==
    /\ ServiceIdle
    /\ kin = NoKin
    /\ met = NoMet
    /\ clients = NoClients
    /\ lake = NoLake
    /\ fan = [scheduled |-> TRUE, runs |-> [r \in ConcReqs |-> IdleRun]]

FanFrame ==
    UNCHANGED <<predictor_vars, requests, enc, prep, probe, kin, met,
                clients, lake>>

\* The two add_task calls for a scored request of n leads.
add_task(r) ==
    /\ fan.scheduled
    /\ fan.runs[r].pc = "idle"
    /\ \E n \in (1..MaxSmallBatch) \cup {MAX_LEADS} :
          fan' = [fan EXCEPT !.runs[r] =
              [IdleRun EXCEPT !.pc = "scheduled", !.n = n,
                              !.request_id = MiddlewareUuid(r),
                              !.tasks = AddedTasks]]
    /\ FanFrame

\* score_leads returns and the response is sent; its background tasks run
\* after that.
send_response(r) ==
    /\ fan.scheduled
    /\ fan.runs[r].pc = "scheduled"
    /\ fan' = [fan EXCEPT !.runs[r].pc = "running"]
    /\ FanFrame

\* The server runs the next background task of the response: the tasks
\* run one after another, and an exception of a task ends the run.  A sink
\* method whose call binds absorbs its own failures and returns.
run_task(r) ==
    /\ fan.scheduled
    /\ fan.runs[r].pc = "running"
    /\ LET run == fan.runs[r]
           task == run.tasks[run.next]
       IN  IF ~Accepts(task.func, task.args)
           THEN fan' = [fan EXCEPT !.runs[r].pc = "aborted",
                                   !.runs[r].escaped = "TypeError"]
           ELSE \E failed \in BOOLEAN :
                   fan' = [fan EXCEPT
                       !.runs[r].executed =
                           Append(@, [func |-> task.func,
                                      failed |-> failed]),
                       !.runs[r].next = @ + 1,
                       !.runs[r].pc = IF run.next = Len(run.tasks)
                                      THEN "finished" ELSE "running"]
    /\ FanFrame

FanNext ==
    \E r \in ConcReqs :
        \/ add_task(r)
        \/ send_response(r)
        \/ run_task(r)

FanSpec == FanInit /\ [][FanNext]_vars

Executed(run, func) ==
    \E j \in 1..Len(run.executed) : run.executed[j].func = func

\* C21: when the run of a request's background tasks is over, the metrics
\* publish task has been executed whatever became of the data lake write
\* task, and no exception has escaped from a sink.
C21_FanOutIndependent ==
    fan.scheduled =>
        \A r \in ConcReqs :
            fan.runs[r].pc \in {"finished", "aborted"} =>
                /\ Executed(fan.runs[r], "publish_prediction_metrics")
                /\ fan.runs[r].escaped = "none"
====
